---- MODULE Spec2Model ----
(***************************************************************************)
(* IrsAttend attendance store (irsattend.model) and QR-code scan screens   *)
(* (irsattend.view).  The Sqlite file is modelled as three tables; every   *)
(* repository call is one transaction that either commits or rolls back.   *)
(*                                                                         *)
(* Rows keep the columns that constraints, queries and handlers read:      *)
(*   students (student_id, email)                                          *)
(*   events   (event_date, event_type, description)                        *)
(*   checkins (student_id, event_type, timestamp); event_date is the       *)
(*            generated column date(timestamp).  The table is a bag: the   *)
(*            AUTOINCREMENT checkin_id only tells equal rows apart.        *)
(* A timestamp is a tick count; ISO-8601 text of naive datetimes orders    *)
(* the same way.  The date of a timestamp is its day number.               *)
(***************************************************************************)
EXTENDS Integers, Sequences, FiniteSets, Bags, TLC

VARIABLES
    students,   \* students table
    events,     \* events table
    checkins,   \* checkins table (bag of rows)
    now,        \* wall clock, datetime.datetime.now()
    ret,        \* what the last call returned or raised
    call,       \* the method that call was
    screen,     \* which ScanScreen is mounted: "closed", "scan_screen", "take_attendance"
    event_type, \* ScanScreen.event_type
    scanned,    \* ScanScreen._scanned / ScanScreen._scanned_students
    checkedin,  \* ScanScreen._checkedin_students (take_attendance.py)
    known,      \* ScanScreen._students (take_attendance.py)
    msgq,       \* QrCodeFound messages posted and not yet handled
    timers,     \* pending discard timers / discard_scanned_code workers
    gen,        \* db.DBase.generate_unique_student_id: "idle", "running", "returned", "raised"
    attempts,   \* passes of its for loop made so far
    generated,  \* its local student_id, the ID drawn last
    db_file     \* the file at db_path: "missing" or "exists"

storeVars == <<students, events, checkins>>
screenVars == <<screen, event_type, scanned, checkedin, known, msgq, timers>>
genVars == <<gen, attempts, generated>>
vars == <<students, events, checkins, now, ret, call, screen, event_type, scanned,
          checkedin, known, msgq, timers, gen, attempts, generated, db_file>>

----------------------------------------------------------------------------
(* Bounds and input domains *)

TicksPerDay == 2
MaxTime == 3
MaxEvents == 2
MaxCheckins == 2
MaxQueue == 2
MaxTimers == 2

StudentIds == {"s1", "s2"}
Emails == {"e1", "e2"}
UnknownCode == "zz"
Descriptions == {"NULL", "Kickoff"}

EventType ==
    {"competition", "kickoff", "meeting", "none", "opportunity", "outreach",
     "virtual", "volunteering"}
UsedTypes == {"meeting", "outreach"}
MEETING == "meeting"

Timestamps == 0..MaxTime
DateOf(ts) == ts \div TicksPerDay
Dates == {DateOf(ts) : ts \in Timestamps}

StudentRows == [student_id : StudentIds, email : Emails]
\* the team's roster: each student with their own email address
Roster ==
    {[student_id |-> "s1", email |-> "e1"], [student_id |-> "s2", email |-> "e2"]}
EventRows == [event_date : Dates, event_type : UsedTypes, description : Descriptions]
CheckinRows == [student_id : StudentIds, event_type : UsedTypes, timestamp : Timestamps]
\* check-ins taken at the first tick of a day
DailyCheckins == {c \in CheckinRows : c.timestamp % TicksPerDay = 0}

----------------------------------------------------------------------------
(* Results of a call *)

Returned(kind, num) == [raised |-> "none", kind |-> kind, num |-> num]
Raised(exc) == [raised |-> exc, kind |-> "None", num |-> 0]
ReturnedNone == Returned("None", 0)
ReturnedBool(b) == Returned(IF b THEN "True" ELSE "False", 0)

\* sqlite3.IntegrityError, by the constraint Sqlite names in the message
UniqueCheckins == "IntegrityError: UNIQUE constraint failed: checkins"
UniqueStudents == "IntegrityError: UNIQUE constraint failed: students"
ForeignKeyFailed == "IntegrityError: FOREIGN KEY constraint failed"
IntegrityErrors == {UniqueCheckins, UniqueStudents, ForeignKeyFailed}

\* sqlite3.ProgrammingError
ClosedDatabase == "ProgrammingError: Cannot operate on a closed database."

\* EventUpateError, by message
NoOriginalEvent == "EventUpateError: Original event does not exist."
CheckinsExist == "EventUpateError: Cannot change date; checkins exist for this event."
TargetExists == "EventUpateError: Cannot update event; target event already exists."
EventUpateError == {NoOriginalEvent, CheckinsExist, TargetExists}

----------------------------------------------------------------------------
(* Table constraints *)

Rows(ck) == BagToSet(ck)
event_date(row) == DateOf(row.timestamp)

\* CONSTRAINT single_event_constraint UNIQUE(student_id, event_date, event_type)
SingleEventViolationNone(ck, row) == FALSE
SingleEventViolation(ck, row) ==
    \E r \in Rows(ck) :
        /\ r.student_id = row.student_id
        /\ event_date(r) = event_date(row)
        /\ r.event_type = row.event_type

\* FOREIGN KEY (student_id) REFERENCES students (student_id)
StudentKeyExists(st, sid) == \E s \in st : s.student_id = sid

\* FOREIGN KEY (event_date, event_type) REFERENCES events (event_date, event_type)
EventKeyExists(ev, d, t) == \E e \in ev : e.event_date = d /\ e.event_type = t

ForeignKeysHold(st, ev, ck) ==
    \A r \in Rows(ck) :
        /\ StudentKeyExists(st, r.student_id)
        /\ EventKeyExists(ev, event_date(r), r.event_type)

\* students: student_id TEXT PRIMARY KEY, email TEXT UNIQUE NOT NULL
StudentConflict(st, row) ==
    \E s \in st : s.student_id = row.student_id \/ s.email = row.email

\* INSERT INTO checkins (student_id, event_type, timestamp) VALUES (...), in a
\* transaction of its own: ok is FALSE when sqlite3.IntegrityError is raised.
InsertCheckin(st, ev, ck, row) ==
    IF SingleEventViolation(ck, row)
    THEN [ok |-> FALSE, error |-> UniqueCheckins, checkins |-> ck]
    ELSE IF \/ ~StudentKeyExists(st, row.student_id)
            \/ ~EventKeyExists(ev, event_date(row), row.event_type)
    THEN [ok |-> FALSE, error |-> ForeignKeyFailed, checkins |-> ck]
    ELSE [ok |-> TRUE, error |-> "none", checkins |-> ck (+) SetToBag({row})]

\* INSERT INTO events ...: PRIMARY KEY (event_date, event_type) ON CONFLICT IGNORE
InsertEventOrReplace(ev, row) ==
    {x \in ev : ~(x.event_date = row.event_date /\ x.event_type = row.event_type)}
        \cup {row}
InsertEvent(ev, row) ==
    IF EventKeyExists(ev, row.event_date, row.event_type) THEN ev ELSE ev \cup {row}

WithinBounds(ev, ck) ==
    /\ Cardinality(ev) <= MaxEvents
    /\ BagCardinality(ck) <= MaxCheckins

\* DELETE FROM checkins WHERE student_id = ?
DeleteCheckinsOf(ck, sid) ==
    [r \in {x \in DOMAIN ck : x.student_id # sid} |-> ck[r]]

CheckinsOf(ck, sid) == {r \in Rows(ck) : r.student_id = sid}

\* SELECT COUNT(*) FROM checkins WHERE event_date = ? AND event_type = ?
get_count(ck, d, t) ==
    LET hit == {r \in DOMAIN ck : event_date(r) = d /\ r.event_type = t}
    IN BagCardinality([r \in hit |-> ck[r]])

Max(S) == CHOOSE x \in S : \A y \in S : y <= x

----------------------------------------------------------------------------
(* model/database.py: DBase *)

\* DBase.add_student; random.randint(1, 999) picks the suffix of the
\* generated student_id, here the choice of sid.
add_student(sid, email) ==
    LET row == [student_id |-> sid, email |-> email]
    IN /\ IF StudentConflict(students, row)
          THEN students' = students /\ ret' = Raised(UniqueStudents)
          ELSE students' = students \cup {row} /\ ret' = Returned("str", 0)
       /\ call' = "DBase.add_student"
       /\ UNCHANGED <<events, checkins, now, genVars, db_file, screenVars>>

\* DBase.add_event: INSERT ... ON CONFLICT DO NOTHING
add_event(ev, etype, d, description) ==
    InsertEvent(ev, [event_date |-> d, event_type |-> etype, description |-> description])

Do_add_event(etype, d, description) ==
    /\ events' = add_event(events, etype, d, description)
    /\ ret' = ReturnedNone
    /\ WithinBounds(events', checkins)
    /\ call' = "DBase.add_event"
    /\ UNCHANGED <<students, checkins, now, genVars, db_file, screenVars>>

\* DBase.add_checkin_record; ts is the timestamp argument, or now() when omitted
add_checkin_record(st, ev, ck, sid, ts, etype) ==
    LET ins == InsertCheckin(st, ev, ck,
                   [student_id |-> sid, event_type |-> etype, timestamp |-> ts])
    IN [checkins |-> ins.checkins,
        ret |-> IF ins.ok THEN Returned("datetime", ts) ELSE Raised(ins.error)]

Do_add_checkin_record(sid, ts, etype) ==
    LET res == add_checkin_record(students, events, checkins, sid, ts, etype)
    IN /\ checkins' = res.checkins
       /\ ret' = res.ret
       /\ WithinBounds(events, checkins')
       /\ call' = "DBase.add_checkin_record"
       /\ UNCHANGED <<students, events, now, genVars, db_file, screenVars>>

\* DBase.remove_last_checkin_record
remove_last_checkin_record(sid) ==
    LET mine == CheckinsOf(checkins, sid)
    IN /\ IF mine # {}
          THEN /\ checkins' = DeleteCheckinsOf(checkins, sid)
               /\ ret' = Returned("datetime", Max({r.timestamp : r \in mine}))
          ELSE /\ checkins' = checkins
               /\ ret' = ReturnedNone
       /\ call' = "DBase.remove_last_checkin_record"
       /\ UNCHANGED <<students, events, now, genVars, db_file, screenVars>>

\* DBase.remove_all_checkin_records
remove_all_checkin_records(sid) ==
    /\ checkins' = DeleteCheckinsOf(checkins, sid)
    /\ ret' = Returned("int", BagCardinality(checkins) - BagCardinality(checkins'))
    /\ call' = "DBase.remove_all_checkin_records"
    /\ UNCHANGED <<students, events, now, genVars, db_file, screenVars>>

\* DBase.has_attended_today
has_attended_today(ck, sid, clock) ==
    LET today_start == DateOf(clock) * TicksPerDay
    IN \E r \in Rows(ck) : r.student_id = sid /\ r.timestamp >= today_start

----------------------------------------------------------------------------
(* model/events_mod.py: Event, Checkin *)

\* Event.exists
existsUnchecked(ev, e) == TRUE
exists(ev, e) == EventKeyExists(ev, e.event_date, e.event_type)

\* Event.add
Event_add(e) ==
    /\ events' = InsertEvent(events, e)
    /\ ret' = ReturnedBool(events' # events)
    /\ WithinBounds(events', checkins)
    /\ call' = "Event.add"
    /\ UNCHANGED <<students, checkins, now, genVars, db_file, screenVars>>

\* Event.delete
Event_delete(e) ==
    /\ IF exists(events, e) /\ get_count(checkins, e.event_date, e.event_type) > 0
       THEN events' = events /\ ret' = Raised(ForeignKeyFailed)
       ELSE /\ events' = {x \in events : ~(x.event_date = e.event_date
                                             /\ x.event_type = e.event_type)}
            /\ ret' = ReturnedBool(events' # events)
    /\ call' = "Event.delete"
    /\ UNCHANGED <<students, checkins, now, genVars, db_file, screenVars>>

\* Checkin.add
Checkin_add(c) ==
    LET ins == InsertCheckin(students, events, checkins, c)
    IN /\ checkins' = ins.checkins
       /\ ret' = IF ins.ok THEN Returned("checkin_id", 0) ELSE Raised(ins.error)
       /\ WithinBounds(events, checkins')
       /\ call' = "Checkin.add"
       /\ UNCHANGED <<students, events, now, genVars, db_file, screenVars>>

\* UPDATE events SET (event_date, event_type) = (d2, t2) WHERE key = (d, t);
\* the primary key is declared ON CONFLICT IGNORE, so the row is skipped when
\* the new key is taken.
UpdateEventKey(ev, d, t, d2, t2) ==
    IF EventKeyExists(ev, d2, t2)
    THEN ev
    ELSE {IF x.event_date = d /\ x.event_type = t
          THEN [x EXCEPT !.event_date = d2, !.event_type = t2]
          ELSE x : x \in ev}

\* UPDATE checkins SET event_type = :new_type
\*  WHERE event_date = :event_date AND event_type = :event_type
Tagged(ck, d, t) == {r \in DOMAIN ck : event_date(r) = d /\ r.event_type = t}

RetagViolation(ck, d, t, new_type) ==
    \E h \in Tagged(ck, d, t) :
        SingleEventViolation(ck, [h EXCEPT !.event_type = new_type])

RetagCheckins(ck, d, t, new_type) ==
    LET hit == Tagged(ck, d, t)
        keep == [r \in (DOMAIN ck) \ hit |-> ck[r]]
        moved == [x \in {[h EXCEPT !.event_type = new_type] : h \in hit} |->
                    ck[[x EXCEPT !.event_type = t]]]
    IN keep (+) moved

Outcome(ev, ck, r) == [events |-> ev, checkins |-> ck, ret |-> r]

\* Event.update_event_type (events_mod.py): one transaction, foreign keys
\* DEFERRABLE INITIALLY DEFERRED and checked at commit
update_event_type(st, ev, ck, e, new_type) ==
    IF e.event_type = new_type
    THEN Outcome(ev, ck, Returned("int", 0))
    ELSE IF ~exists(ev, e)
    THEN Outcome(ev, ck, Raised(NoOriginalEvent))
    ELSE LET ev1 == UpdateEventKey(ev, e.event_date, e.event_type,
                                   e.event_date, new_type)
             ck1 == RetagCheckins(ck, e.event_date, e.event_type, new_type)
         IN IF RetagViolation(ck, e.event_date, e.event_type, new_type)
            THEN Outcome(ev, ck, Raised(UniqueCheckins))
            ELSE IF ~ForeignKeysHold(st, ev1, ck1)
            THEN Outcome(ev, ck, Raised(ForeignKeyFailed))
            ELSE Outcome(ev1, ck1,
                         Returned("int", get_count(ck, e.event_date, e.event_type)))

Event_update_event_type(e, new_type) ==
    LET res == update_event_type(students, events, checkins, e, new_type)
    IN /\ events' = res.events
       /\ checkins' = res.checkins
       /\ ret' = res.ret
       /\ call' = "events_mod.Event.update_event_type"
       /\ UNCHANGED <<students, now, genVars, db_file, screenVars>>

\* Event.update_event_date (events_mod.py)
update_event_date_uncounted(ev, ck, e, new_date) ==
    IF e.event_date = new_date
    THEN Outcome(ev, ck, ReturnedNone)
    ELSE IF ~exists(ev, e)
    THEN Outcome(ev, ck, Raised(NoOriginalEvent))
    ELSE IF get_count(ck, e.event_date, e.event_type) > 0
    THEN Outcome(ev, ck, Raised(ForeignKeyFailed))
    ELSE Outcome(UpdateEventKey(ev, e.event_date, e.event_type,
                                new_date, e.event_type),
                 ck, ReturnedNone)
update_event_date(ev, ck, e, new_date) ==
    IF e.event_date = new_date
    THEN Outcome(ev, ck, ReturnedNone)
    ELSE IF ~exists(ev, e)
    THEN Outcome(ev, ck, Raised(NoOriginalEvent))
    ELSE IF get_count(ck, e.event_date, e.event_type) > 0
    THEN Outcome(ev, ck, Raised(CheckinsExist))
    ELSE Outcome(UpdateEventKey(ev, e.event_date, e.event_type,
                                new_date, e.event_type),
                 ck, ReturnedNone)

Event_update_event_date(e, new_date) ==
    LET res == update_event_date(events, checkins, e, new_date)
    IN /\ events' = res.events
       /\ checkins' = res.checkins
       /\ ret' = res.ret
       /\ call' = "events_mod.Event.update_event_date"
       /\ UNCHANGED <<students, now, genVars, db_file, screenVars>>

----------------------------------------------------------------------------
(* model/schema.py: Event, the earlier revision of the same operations *)

DeleteEvent(ev, d, t) == {x \in ev : ~(x.event_date = d /\ x.event_type = t)}

\* Event.update_event_type (schema.py): add the new event, retag the
\* check-ins, delete the old event
schema_update_event_type(ev, ck, e, new_type) ==
    IF ~exists(ev, e)
    THEN Outcome(ev, ck, Raised(NoOriginalEvent))
    ELSE IF EventKeyExists(ev, e.event_date, new_type)
    THEN Outcome(ev, ck, Raised(TargetExists))
    ELSE LET ev1 == InsertEvent(ev, [e EXCEPT !.event_type = new_type])
         IN IF RetagViolation(ck, e.event_date, e.event_type, new_type)
            THEN Outcome(ev1, ck, Raised(UniqueCheckins))
            ELSE Outcome(DeleteEvent(ev1, e.event_date, e.event_type),
                         RetagCheckins(ck, e.event_date, e.event_type, new_type),
                         Returned("int", get_count(ck, e.event_date, e.event_type)))

Schema_update_event_type(e, new_type) ==
    LET res == schema_update_event_type(events, checkins, e, new_type)
    IN /\ events' = res.events
       /\ checkins' = res.checkins
       /\ ret' = res.ret
       /\ WithinBounds(events', checkins')
       /\ call' = "schema.Event.update_event_type"
       /\ UNCHANGED <<students, now, genVars, db_file, screenVars>>

\* Event.update_event_date (schema.py)
schema_update_event_date(ev, ck, e, new_date) ==
    IF ~exists(ev, e)
    THEN Outcome(ev, ck, Raised(NoOriginalEvent))
    ELSE IF get_count(ck, e.event_date, e.event_type) > 0
    THEN Outcome(ev, ck, Raised(CheckinsExist))
    ELSE IF EventKeyExists(ev, new_date, e.event_type)
    THEN Outcome(ev, ck, Raised(TargetExists))
    ELSE Outcome(DeleteEvent(InsertEvent(ev, [e EXCEPT !.event_date = new_date]),
                             e.event_date, e.event_type),
                 ck, ReturnedNone)

Schema_update_event_date(e, new_date) ==
    LET res == schema_update_event_date(events, checkins, e, new_date)
    IN /\ events' = res.events
       /\ checkins' = res.checkins
       /\ ret' = res.ret
       /\ call' = "schema.Event.update_event_date"
       /\ UNCHANGED <<students, now, genVars, db_file, screenVars>>

----------------------------------------------------------------------------
(* model/database.py: bulk transfer *)

RECURSIVE InsertAllStudents(_, _)
\* executemany(student_query, ...): ok is FALSE when sqlite3.IntegrityError is raised
InsertAllStudents(st, rows) ==
    IF rows = {}
    THEN [ok |-> TRUE, students |-> st]
    ELSE LET r == CHOOSE x \in rows : TRUE
         IN IF StudentConflict(st, r)
            THEN [ok |-> FALSE, students |-> st]
            ELSE InsertAllStudents(st \cup {r}, rows \ {r})

RECURSIVE InsertAllEvents(_, _)
\* executemany(event_query, ...)
InsertAllEvents(ev, rows) ==
    IF rows = {}
    THEN ev
    ELSE LET r == CHOOSE x \in rows : TRUE
         IN InsertAllEvents(InsertEvent(ev, r), rows \ {r})

RECURSIVE InsertAllCheckins(_, _, _, _)
\* executemany(checkins_query, ...)
InsertAllCheckins(st, ev, ck, rows) ==
    IF rows = {}
    THEN [ok |-> TRUE, error |-> "none", checkins |-> ck]
    ELSE LET r == CHOOSE x \in rows : TRUE
             ins == InsertCheckin(st, ev, ck, r)
         IN IF ins.ok
            THEN InsertAllCheckins(st, ev, ins.checkins, rows \ {r})
            ELSE [ok |-> FALSE, error |-> ins.error, checkins |-> ck]

\* DBase.to_dict
to_dictUndescribed(st, ev, ck) ==
    [students |-> st,
     events |-> {[e EXCEPT !.description = "NULL"] : e \in ev},
     checkins |-> Rows(ck)]
to_dict(st, ev, ck) == [students |-> st, events |-> ev, checkins |-> Rows(ck)]

\* DBase.load_from_dict: students and events are committed by the first
\* "with" block, check-ins by the second
load_from_dict(db_data_dict) ==
    LET s1 == InsertAllStudents(students, db_data_dict.students)
        ev1 == InsertAllEvents(events, db_data_dict.events)
        c1 == InsertAllCheckins(s1.students, ev1, checkins, db_data_dict.checkins)
    IN /\ IF ~s1.ok
          THEN /\ UNCHANGED <<students, events, checkins>>
               /\ ret' = Raised(UniqueStudents)
          ELSE /\ students' = s1.students
               /\ events' = ev1
               /\ IF c1.ok
                  THEN checkins' = c1.checkins /\ ret' = ReturnedNone
                  ELSE checkins' = checkins /\ ret' = Raised(c1.error)
       /\ WithinBounds(events', checkins')
       /\ call' = "DBase.load_from_dict"
       /\ UNCHANGED <<now, genVars, db_file, screenVars>>

\* INSERT INTO students ... for every incoming student, no key consulted
MergeStudentsUnkeyed(st, incoming_students, current_student_ids) ==
    st \cup incoming_students

RECURSIVE MergeStudents(_, _, _)
\* INSERT INTO students ... ON CONFLICT(email) DO NOTHING, for every incoming
\* student whose student_id is not in current_student_ids
MergeStudents(st, incoming_students, current_student_ids) ==
    IF incoming_students = {}
    THEN st
    ELSE LET r == CHOOSE x \in incoming_students : TRUE
             rest == incoming_students \ {r}
         IN IF r.student_id \in current_student_ids
               \/ \E s \in st : s.email = r.email
            THEN MergeStudents(st, rest, current_student_ids)
            ELSE MergeStudents(st \cup {r}, rest, current_student_ids)

\* DBase.merge_database: the cursor over the incoming check-ins is read after
\* incoming_conn.close(), so the loop over it raises sqlite3.ProgrammingError
\* ("Cannot operate on a closed database") before its first iteration.
merge_database(incoming) ==
    /\ students' = MergeStudents(students, incoming.students,
                                 {s.student_id : s \in students})
    /\ ret' = Raised(ClosedDatabase)
    /\ call' = "DBase.merge_database"
    /\ UNCHANGED <<events, checkins, now, genVars, db_file, screenVars>>

\* Contents of another database file or of an exported JSON file
AtMostOne(S) == {{}} \cup {{x} : x \in S}
NullEvents == {e \in EventRows : e.description = "NULL"}
IncomingStores ==
    {db \in [students : AtMostOne(Roster),
             events : AtMostOne(NullEvents),
             checkins : AtMostOne(DailyCheckins)] :
        ForeignKeysHold(db.students, db.events, SetToBag(db.checkins))}

----------------------------------------------------------------------------
(* The store: DBase(db_path, create_new=True), then any sequence of calls *)

ScreenClosed ==
    /\ now = 0
    /\ ret = ReturnedNone
    /\ call = "DBase.__init__"
    /\ screen = "closed"
    /\ event_type = MEETING
    /\ scanned = {}
    /\ checkedin = {}
    /\ known = {}
    /\ msgq = <<>>
    /\ timers = EmptyBag
    /\ gen = "idle"
    /\ attempts = 0
    /\ generated = "None"
    /\ db_file = "exists"

Init ==
    /\ students = {}
    /\ events = {}
    /\ checkins = EmptyBag
    /\ ScreenClosed

Next ==
    \/ \E s \in Roster : add_student(s.student_id, s.email)
    \/ \E d \in Dates, t \in UsedTypes : Do_add_event(t, d, "NULL")
    \/ \E c \in CheckinRows : Do_add_checkin_record(c.student_id, c.timestamp, c.event_type)
    \/ \E c \in DailyCheckins : Checkin_add(c)
    \/ \E sid \in StudentIds : remove_last_checkin_record(sid)
    \/ \E sid \in StudentIds : remove_all_checkin_records(sid)
    \/ \E e \in NullEvents, t \in UsedTypes : Event_update_event_type(e, t)
    \/ \E db \in IncomingStores : load_from_dict(db)
    \/ \E db \in IncomingStores : merge_database(db)

Spec == Init /\ [][Next]_vars

----------------------------------------------------------------------------
(* The events table under the event editor: a store with its roster loaded, *)
(* then any sequence of Event and Checkin calls                             *)

InitEvents ==
    /\ students = Roster
    /\ events = {}
    /\ checkins = EmptyBag
    /\ ScreenClosed

NextEvents ==
    \/ \E e \in EventRows : Event_add(e)
    \/ \E e \in EventRows : Do_add_event(e.event_type, e.event_date, e.description)
    \/ \E c \in DailyCheckins : Checkin_add(c)
    \/ \E e \in EventRows : Event_delete(e)
    \/ \E e \in EventRows, t \in UsedTypes : Event_update_event_type(e, t)
    \/ \E e \in EventRows, d \in Dates : Event_update_event_date(e, d)
    \/ \E e \in EventRows, t \in UsedTypes : Schema_update_event_type(e, t)
    \/ \E e \in EventRows, d \in Dates : Schema_update_event_date(e, d)

SpecEvents == InitEvents /\ [][NextEvents]_vars

----------------------------------------------------------------------------
(* view/scan_screen.py and view/take_attendance.py: ScanScreen *)

Codes == {"s1", UnknownCode}
Variants == {"scan_screen", "take_attendance"}

Logged(text) == Returned(text, 0)

\* Checkin.get_checkedin_students
get_checkedin_students(ck, d, t) ==
    {r.student_id : r \in {x \in Rows(ck) : event_date(x) = d /\ x.event_type = t}}

\* ScanScreen.__init__, on_mount and set_event_type_and_start_scanning with
\* the event type picked in EventTypeDialog
set_event_type_and_start_scanning(variant, etype) ==
    /\ screen = "closed"
    /\ screen' = variant
    /\ event_type' = etype
    /\ events' = add_event(events, etype, DateOf(now), "NULL")
    /\ known' = IF variant = "take_attendance"
                THEN {s.student_id : s \in students}
                ELSE {}
    /\ checkedin' = IF variant = "take_attendance"
                    THEN get_checkedin_students(checkins, DateOf(now), etype)
                    ELSE {}
    /\ scanned' = {}
    /\ msgq' = <<>>
    /\ timers' = EmptyBag
    /\ ret' = ReturnedNone
    /\ WithinBounds(events', checkins)
    /\ call' = "ScanScreen.set_event_type_and_start_scanning"
    /\ UNCHANGED <<students, checkins, now, genVars, db_file>>

\* ScanScreen.scan_qr_codes, one pass of the loop in which the detector
\* decodes qr_data from the frame
scan_qr_codes(qr_data) ==
    /\ screen # "closed"
    /\ qr_data \notin scanned
    /\ Len(msgq) < MaxQueue
    /\ scanned' = scanned \cup {qr_data}
    /\ msgq' = Append(msgq, qr_data)
    /\ UNCHANGED <<storeVars, now, genVars, db_file, ret, call, screen, event_type, checkedin, known, timers>>

\* ScanScreen.on_scan_screen_qr_code_found (scan_screen.py)
scan_screen_on_qr_code_found ==
    LET student_id == Head(msgq)
        res == add_checkin_record(students, events, checkins, student_id, now,
                                  event_type)
    IN /\ screen = "scan_screen"
       /\ msgq # <<>>
       /\ msgq' = Tail(msgq)
       /\ IF ~StudentKeyExists(students, student_id)
          THEN /\ ret' = Logged("Unknown ID scanned")
               /\ UNCHANGED <<checkins, timers>>
          ELSE IF has_attended_today(checkins, student_id, now)
          THEN /\ ret' = Logged("Already attended")
               /\ timers' = timers (+) SetToBag({student_id})
               /\ UNCHANGED checkins
          ELSE /\ checkins' = res.checkins
               /\ IF res.ret.raised = "none"
                  THEN /\ ret' = Logged("Success")
                       /\ timers' = timers (+) SetToBag({student_id})
                  ELSE /\ ret' = res.ret
                       /\ UNCHANGED timers
       /\ call' = "ScanScreen.on_scan_screen_qr_code_found"
       /\ BagCardinality(timers') <= MaxTimers
       /\ WithinBounds(events, checkins')
       /\ UNCHANGED <<students, events, now, genVars, db_file, screen, event_type, scanned,
                      checkedin, known>>

\* ScanScreen.on_scan_screen_qr_code_found (take_attendance.py)
take_attendance_on_qr_code_found ==
    LET student_id == Head(msgq)
        res == add_checkin_record(students, events, checkins, student_id, now,
                                  event_type)
    IN /\ screen = "take_attendance"
       /\ msgq # <<>>
       /\ msgq' = Tail(msgq)
       /\ IF student_id \notin known
          THEN /\ ret' = Logged("Unknown ID scanned")
               /\ UNCHANGED <<checkins, checkedin, timers>>
          ELSE IF student_id \in checkedin
          THEN /\ ret' = Logged("Already attended")
               /\ timers' = timers (+) SetToBag({student_id})
               /\ UNCHANGED <<checkins, checkedin>>
          ELSE /\ checkedin' = checkedin \cup {student_id}
               /\ checkins' = res.checkins
               /\ IF res.ret.raised = "none"
                  THEN /\ ret' = Logged("Success")
                       /\ timers' = timers (+) SetToBag({student_id})
                  ELSE /\ ret' = res.ret
                       /\ UNCHANGED timers
       /\ call' = "ScanScreen.on_scan_screen_qr_code_found"
       /\ BagCardinality(timers') <= MaxTimers
       /\ WithinBounds(events, checkins')
       /\ UNCHANGED <<students, events, now, genVars, db_file, screen, event_type, scanned, known>>

\* The timer of set_timer(2, ...) fires (scan_screen.py); the worker
\* discard_scanned_code wakes from time.sleep(5) (take_attendance.py)
discard_scanned_code(student_id) ==
    /\ screen # "closed"
    /\ BagIn(student_id, timers)
    /\ timers' = timers (-) SetToBag({student_id})
    /\ scanned' = scanned \ {student_id}
    /\ UNCHANGED <<storeVars, now, genVars, db_file, ret, call, screen, event_type, checkedin, known, msgq>>

\* ScanScreen.action_exit_scan_mode: "q" ends the scan loop and the password
\* is accepted (the screen is popped) or refused (scan_qr_codes starts again)
exit_scan_mode(success) ==
    /\ screen # "closed"
    /\ IF success
       THEN /\ screen' = "closed"
            /\ scanned' = {}
            /\ checkedin' = {}
            /\ known' = {}
            /\ msgq' = <<>>
            /\ timers' = EmptyBag
       ELSE /\ scanned' = IF screen = "take_attendance" THEN {} ELSE scanned
            /\ UNCHANGED <<screen, checkedin, known, msgq, timers>>
    /\ UNCHANGED <<storeVars, now, genVars, db_file, ret, call, event_type>>

\* The wall clock advances
Tick ==
    /\ now < MaxTime
    /\ now' = now + 1
    /\ UNCHANGED <<storeVars, ret, call, screenVars, genVars, db_file>>

\* Stores the scan screen is opened on
AtMostTwo(S) == AtMostOne(S) \cup {{x, y} : x \in S, y \in S}
ScanStores ==
    {db \in [students : {{s \in Roster : s.student_id = "s1"}},
             events : AtMostTwo(NullEvents),
             checkins : AtMostOne(CheckinRows)] :
        ForeignKeysHold(db.students, db.events, SetToBag(db.checkins))}

InitScan ==
    /\ \E db \in ScanStores :
          /\ students = db.students
          /\ events = db.events
          /\ checkins = SetToBag(db.checkins)
    /\ ScreenClosed

NextScan ==
    \/ \E v \in Variants, t \in UsedTypes : set_event_type_and_start_scanning(v, t)
    \/ \E c \in Codes : scan_qr_codes(c)
    \/ scan_screen_on_qr_code_found
    \/ take_attendance_on_qr_code_found
    \/ \E c \in Codes : discard_scanned_code(c)
    \/ \E b \in BOOLEAN : exit_scan_mode(b)
    \/ Tick

SpecScan == InitScan /\ [][NextScan]_vars

\* Textual delivers every posted message, and every timer and sleeping worker
\* that was started runs out
Delivered == scan_screen_on_qr_code_found \/ take_attendance_on_qr_code_found
SpecScanLive ==
    /\ InitScan
    /\ [][NextScan]_vars
    /\ WF_vars(Delivered)
    /\ \A c \in Codes : WF_vars(discard_scanned_code(c))

----------------------------------------------------------------------------
(* Event discovery: a store whose check-ins were recorded before their     *)
(* events were, as the releases without the events foreign key left it     *)

\* SELECT event_date, event_type FROM checkins GROUP BY event_date, event_type
CheckinEvents(ck) ==
    {[event_date |-> event_date(r), event_type |-> r.event_type,
      description |-> "NULL"] : r \in Rows(ck)}

\* DBase.scan_for_new_events: one event row for every (event_date,
\* event_type) of the check-ins that has none
ScanForNewEvents(ev, ck) ==
    InsertAllEvents(ev, {e \in CheckinEvents(ck) : ~exists(ev, e)})

scan_for_new_events ==
    /\ events' = ScanForNewEvents(events, checkins)
    /\ ret' = Returned("int", Cardinality(events') - Cardinality(events))
    /\ WithinBounds(events', checkins)
    /\ call' = "DBase.scan_for_new_events"
    /\ UNCHANGED <<students, checkins, now, genVars, db_file, screenVars>>

UniqueEventKeys(ev) ==
    \A x \in ev, y \in ev :
        (x.event_date = y.event_date /\ x.event_type = y.event_type) => x = y

UniqueTriples(rows) ==
    \A x \in rows, y \in rows :
        (/\ x.student_id = y.student_id
         /\ event_date(x) = event_date(y)
         /\ x.event_type = y.event_type) => x = y

LegacyStores ==
    {db \in [events : SUBSET EventRows, checkins : SUBSET DailyCheckins] :
        /\ UniqueEventKeys(db.events)
        /\ UniqueTriples(db.checkins)
        /\ WithinBounds(db.events, SetToBag(db.checkins))}

InitDiscover ==
    /\ students = Roster
    /\ \E db \in LegacyStores :
          /\ events = db.events
          /\ checkins = SetToBag(db.checkins)
    /\ ScreenClosed

NextDiscover ==
    \/ scan_for_new_events
    \/ \E e \in EventRows : Event_add(e)
    \/ \E c \in DailyCheckins : Checkin_add(c)
    \/ \E sid \in StudentIds : remove_all_checkin_records(sid)

SpecDiscover == InitDiscover /\ [][NextDiscover]_vars

----------------------------------------------------------------------------
(* Transfer between database files: export, import and merge *)

UniqueStudentKeys(st) ==
    \A x \in st, y \in st :
        (x.student_id = y.student_id \/ x.email = y.email) => x = y

\* events without a description, and one that has one
TransferEvents ==
    NullEvents \cup {[event_date |-> 0, event_type |-> MEETING, description |-> "Kickoff"]}

\* what a database file can hold under the constraints of its three tables
ValidStores ==
    UNION {{[students |-> st, events |-> ev, checkins |-> ck] :
              ck \in {c \in SUBSET DailyCheckins :
                        /\ UniqueTriples(c)
                        /\ WithinBounds(ev, SetToBag(c))
                        /\ ForeignKeysHold(st, ev, SetToBag(c))}} :
           st \in {x \in SUBSET StudentRows : UniqueStudentKeys(x)},
           ev \in {x \in SUBSET TransferEvents : UniqueEventKeys(x)}}

\* DBase.to_dict() of each of them
ExportedStores ==
    {to_dict(db.students, db.events, SetToBag(db.checkins)) : db \in ValidStores}

NextTransfer ==
    \/ \E db \in ExportedStores : load_from_dict(db)
    \/ \E db \in ValidStores : db.events \subseteq NullEvents /\ merge_database(db)
    \/ \E s \in StudentRows : add_student(s.student_id, s.email)
    \/ \E sid \in StudentIds : remove_all_checkin_records(sid)

SpecTransfer == Init /\ [][NextTransfer]_vars

----------------------------------------------------------------------------
(* model/students_mod.py: Student, on a students table that has the        *)
(* deactivated_on column                                                   *)

\* deactivated_on TEXT: NULL, or the ISO date of the deactivation
DeactivatedOn == {"NULL", "2025-06-01"}
ModStudentRows ==
    [student_id : StudentIds, email : Emails, deactivated_on : DeactivatedOn]

\* CREATE VIEW active_students AS SELECT ... WHERE deactivated_on IS NULL
active_studentsUnfiltered(st) == st
active_students(st) == {s \in st : s.deactivated_on = "NULL"}

\* Student.get_all
get_all(st, include_inactive) ==
    IF include_inactive THEN st ELSE active_students(st)

\* Student.get_all_ids: SELECT student_id FROM students
get_all_ids(st, include_inactive) == {s.student_id : s \in st}

\* Student.add; the student_id is the one given to Student(...), or the one
\* generate_unique_student_id drew when it was given ""
Student_add(row) ==
    /\ IF StudentConflict(students, row)
       THEN students' = students /\ ret' = Raised(UniqueStudents)
       ELSE students' = students \cup {row} /\ ret' = ReturnedNone
    /\ call' = "Student.add"
    /\ UNCHANGED <<events, checkins, now, genVars, db_file, screenVars>>

\* Student.update: UPDATE students SET ... WHERE student_id = :student_id
Student_update(row) ==
    LET others == {s \in students : s.student_id # row.student_id}
    IN /\ IF ~StudentKeyExists(students, row.student_id)
          THEN students' = students /\ ret' = ReturnedNone
          ELSE IF \E s \in others : s.email = row.email
          THEN students' = students /\ ret' = Raised(UniqueStudents)
          ELSE students' = others \cup {row} /\ ret' = ReturnedNone
       /\ call' = "Student.update"
       /\ UNCHANGED <<events, checkins, now, genVars, db_file, screenVars>>

Student_get_all(include_inactive) ==
    /\ ret' = Returned("list", Cardinality(get_all(students, include_inactive)))
    /\ call' = IF include_inactive
               THEN "Student.get_all(include_inactive=True)"
               ELSE "Student.get_all"
    /\ UNCHANGED <<storeVars, now, genVars, db_file, screenVars>>

Student_get_all_ids(include_inactive) ==
    /\ ret' = Returned("list", Cardinality(get_all_ids(students, include_inactive)))
    /\ call' = IF include_inactive
               THEN "Student.get_all_ids(include_inactive=True)"
               ELSE "Student.get_all_ids"
    /\ UNCHANGED <<storeVars, now, genVars, db_file, screenVars>>

NextStudents ==
    \/ \E row \in ModStudentRows : Student_add(row)
    \/ \E row \in ModStudentRows : Student_update(row)
    \/ \E b \in BOOLEAN : Student_get_all(b)
    \/ \E b \in BOOLEAN : Student_get_all_ids(b)
    \/ \E t \in UsedTypes : Do_add_event(t, 0, "NULL")
    \/ \E c \in DailyCheckins : Checkin_add(c)

SpecStudents == Init /\ [][NextStudents]_vars

----------------------------------------------------------------------------
(* db/database.py: DBase of the first release, whose student IDs are       *)
(* random 8-digit numbers                                                  *)

max_attempts == 100

GenerationFailed == "RuntimeError: Error generating ID"

\* DBase.get_student_by_id: the row of that ID, none when there is no such row
get_student_by_id(st, sid) == {s \in st : s.student_id = sid}

\* DBase.add_student calls generate_unique_student_id
generate_unique_student_id ==
    /\ gen \in {"idle", "raised"}
    /\ gen' = "running"
    /\ attempts' = 0
    /\ generated' = "None"
    /\ call' = "db.DBase.generate_unique_student_id"
    /\ UNCHANGED <<storeVars, now, ret, screenVars, db_file>>

\* one pass of "for _ in range(max_attempts)"; random.randint draws sid
generate_attemptUncounted(sid) ==
    /\ gen = "running"
    /\ generated' = sid
    /\ IF get_student_by_id(students, sid) = {}
       THEN gen' = "returned" /\ ret' = Returned("str", 0) /\ attempts' = attempts + 1
       ELSE UNCHANGED <<gen, ret, attempts>>
    /\ UNCHANGED <<storeVars, now, call, screenVars, db_file>>
generate_attempt(sid) ==
    /\ gen = "running"
    /\ attempts < max_attempts
    /\ attempts' = attempts + 1
    /\ generated' = sid
    /\ IF get_student_by_id(students, sid) = {}
       THEN gen' = "returned" /\ ret' = Returned("str", 0)
       ELSE UNCHANGED <<gen, ret>>
    /\ UNCHANGED <<storeVars, now, call, screenVars, db_file>>

\* the loop is over and nothing was returned: raise RuntimeError
generate_exhausted ==
    /\ gen = "running"
    /\ attempts = max_attempts
    /\ gen' = "raised"
    /\ ret' = Raised(GenerationFailed)
    /\ UNCHANGED <<storeVars, now, call, screenVars, db_file, attempts, generated>>

\* DBase.add_student, once the generator has returned: INSERT INTO students
db_add_student(email) ==
    /\ gen = "returned"
    /\ gen' = "idle"
    /\ students' = students \cup {[student_id |-> generated, email |-> email]}
    /\ ret' = Returned("str", 0)
    /\ call' = "db.DBase.add_student"
    /\ UNCHANGED <<events, checkins, now, screenVars, db_file, attempts, generated>>

GeneratorStep ==
    \/ \E sid \in StudentIds : generate_attempt(sid)
    \/ generate_exhausted

NextGenerate ==
    \/ generate_unique_student_id
    \/ \E sid \in StudentIds : generate_attempt(sid)
    \/ generate_exhausted
    \/ \E email \in Emails : db_add_student(email)

\* the loop keeps running once it is entered
SpecGenerate == Init /\ [][NextGenerate]_vars /\ WF_vars(GeneratorStep)

----------------------------------------------------------------------------
(* view/management_screen.py: ManagementScreen, the roster editor *)

MaxRows == 2

\* the rows CSVImportDialog hands over: a list of students read from the file
CsvFiles == UNION {[1..n -> StudentRows] : n \in 1..MaxRows}

\* update_status(...) of on_import_closed: the two counts of the message
Imported(success_count, error_count) ==
    [raised |-> "none", kind |-> "status", num |-> success_count,
     failed |-> error_count]

RECURSIVE on_import_closed(_, _, _, _)
\* on_import_closed: "for student_data in imported_students"; DBase.add_student
\* returns the new student_id, a non-empty string, or raises
\* sqlite3.IntegrityError, which nothing in the loop catches.
on_import_closed(st, imported_students, success_count, error_count) ==
    IF imported_students = <<>>
    THEN [students |-> st, ret |-> Imported(success_count, error_count)]
    ELSE LET student_data == Head(imported_students)
         IN IF StudentConflict(st, student_data)
            THEN [students |-> st, ret |-> Raised(UniqueStudents)]
            ELSE on_import_closed(st \cup {student_data}, Tail(imported_students),
                                  success_count + 1, error_count)

\* ManagementScreen.action_import_csv
action_import_csv(imported_students) ==
    LET res == on_import_closed(students, imported_students, 0, 0)
    IN /\ students' = res.students
       /\ ret' = res.ret
       /\ call' = "ManagementScreen.action_import_csv"
       /\ UNCHANGED <<events, checkins, now, genVars, db_file, screenVars>>

\* DELETE FROM students WHERE student_id = ? on a connection without
\* PRAGMA foreign_keys = ON
delete_studentUnrestricted(sid) ==
    /\ students' = {s \in students : s.student_id # sid}
    /\ ret' = ReturnedNone
    /\ call' = "DBase.delete_student"
    /\ UNCHANGED <<events, checkins, now, genVars, db_file, screenVars>>
\* DBase.delete_student: DELETE FROM students WHERE student_id = ?; the
\* foreign key of checkins.student_id has no ON DELETE clause, so the delete
\* of a student that check-ins refer to fails
delete_student(sid) ==
    /\ IF CheckinsOf(checkins, sid) # {}
       THEN students' = students /\ ret' = Raised(ForeignKeyFailed)
       ELSE /\ students' = {s \in students : s.student_id # sid}
            /\ ret' = ReturnedNone
    /\ call' = "DBase.delete_student"
    /\ UNCHANGED <<events, checkins, now, genVars, db_file, screenVars>>

NextManage ==
    \/ \E s \in StudentRows : add_student(s.student_id, s.email)
    \/ \E rows \in CsvFiles : action_import_csv(rows)
    \/ \E sid \in StudentIds : delete_student(sid)
    \/ \E t \in UsedTypes : Do_add_event(t, 0, "NULL")
    \/ \E c \in DailyCheckins : Do_add_checkin_record(c.student_id, c.timestamp, c.event_type)

SpecManage == Init /\ [][NextManage]_vars

\* every call that adds, deletes or updates a student, an event or a check-in
NextIntegrity ==
    \/ \E s \in Roster : add_student(s.student_id, s.email)
    \/ \E sid \in StudentIds : delete_student(sid)
    \/ \E e \in NullEvents : Event_add(e)
    \/ \E e \in NullEvents : Event_delete(e)
    \/ \E c \in DailyCheckins : Checkin_add(c)
    \/ \E c \in DailyCheckins :
           Do_add_checkin_record(c.student_id, c.timestamp, c.event_type)
    \/ \E sid \in StudentIds : remove_last_checkin_record(sid)
    \/ \E e \in NullEvents, t \in UsedTypes : Event_update_event_type(e, t)
    \/ \E e \in NullEvents, d \in Dates : Event_update_event_date(e, d)
    \/ \E e \in NullEvents, t \in UsedTypes : Schema_update_event_type(e, t)
    \/ \E e \in NullEvents, d \in Dates : Schema_update_event_date(e, d)

SpecIntegrity == Init /\ [][NextIntegrity]_vars

----------------------------------------------------------------------------
(* Opening a database file: DBase.__init__ of model/database.py and of      *)
(* db/database.py                                                           *)

\* DBaseError of model/database.py, by message
FileExists == "DBaseError: Cannot create new database, file already exists."
FileMissing == "DBaseError: Database file does not exist."
\* ConfigError of db/database.py
PathDoesNotExist == "ConfigError: PATH_DOES_NOT_EXIST"

\* DBase.create_tables: sqlite3.connect creates the file, CREATE TABLE IF NOT
\* EXISTS the tables
create_tables ==
    /\ db_file' = "exists"
    /\ students' = students
    /\ events' = events
    /\ checkins' = checkins

\* model.database.DBase.__init__
DBase_init(create_new) ==
    /\ IF create_new
       THEN IF db_file = "exists"
            THEN UNCHANGED <<db_file, storeVars>> /\ ret' = Raised(FileExists)
            ELSE create_tables /\ ret' = ReturnedNone
       ELSE IF db_file # "exists"
            THEN UNCHANGED <<db_file, storeVars>> /\ ret' = Raised(FileMissing)
            ELSE UNCHANGED <<db_file, storeVars>> /\ ret' = ReturnedNone
    /\ call' = "model.DBase.__init__"
    /\ UNCHANGED <<now, genVars, screenVars>>

\* db.database.DBase.__init__
db_DBase_init(create_new) ==
    /\ IF db_file # "exists" /\ create_new
       THEN create_tables /\ ret' = ReturnedNone
       ELSE UNCHANGED <<db_file, storeVars>> /\ ret' = Raised(PathDoesNotExist)
    /\ call' = "db.DBase.__init__"
    /\ UNCHANGED <<now, genVars, screenVars>>

\* no file at db_path yet
InitOpen ==
    /\ students = {}
    /\ events = {}
    /\ checkins = EmptyBag
    /\ now = 0
    /\ ret = ReturnedNone
    /\ call = "none"
    /\ screen = "closed"
    /\ event_type = MEETING
    /\ scanned = {}
    /\ checkedin = {}
    /\ known = {}
    /\ msgq = <<>>
    /\ timers = EmptyBag
    /\ gen = "idle"
    /\ attempts = 0
    /\ generated = "None"
    /\ db_file = "missing"

\* the methods of a DBase need the object a constructor call has returned
NextOpen ==
    \/ \E create_new \in BOOLEAN : DBase_init(create_new)
    \/ \E create_new \in BOOLEAN : db_DBase_init(create_new)
    \/ db_file = "exists" /\ \E s \in StudentRows : add_student(s.student_id, s.email)
    \/ db_file = "exists" /\ \E t \in UsedTypes : Do_add_event(t, 0, "NULL")
    \/ db_file = "exists" /\
           \E c \in DailyCheckins :
               Do_add_checkin_record(c.student_id, c.timestamp, c.event_type)

SpecOpen == InitOpen /\ [][NextOpen]_vars

----------------------------------------------------------------------------
(* Attendance reports: the totals per student (model/database.py) and per   *)
(* event (features/events.py) that excel.py and the screens show            *)

\* adapt_date_iso: the text 'YYYY-MM-DD' of a date sorts before the text of
\* every timestamp of that day and after every timestamp of an earlier day
adapt_date_iso(d) == d * TicksPerDay

\* SELECT COUNT(student_id) FROM checkins WHERE student_id = ? AND timestamp >= ?
checkins_since(ck, sid, since) ==
    LET hit == {r \in DOMAIN ck :
                   r.student_id = sid /\ r.timestamp >= adapt_date_iso(since)}
    IN BagCardinality([r \in hit |-> ck[r]])

\* the same query with JOIN for LEFT JOIN: students without check-ins drop out
get_student_attendance_dataJoined(st, ck, year_start, build_start) ==
    {[student_id |-> s.student_id,
      year_checkins |-> checkins_since(ck, s.student_id, year_start),
      build_checkins |-> checkins_since(ck, s.student_id, build_start)] :
        s \in {x \in st : /\ checkins_since(ck, x.student_id, year_start) > 0
                          /\ checkins_since(ck, x.student_id, build_start) > 0}}
\* DBase.get_student_attendance_data: students LEFT JOIN year_checkins
\* LEFT JOIN build_checkins, COALESCE(..., 0)
get_student_attendance_data(st, ck, year_start, build_start) ==
    {[student_id |-> s.student_id,
      year_checkins |-> checkins_since(ck, s.student_id, year_start),
      build_checkins |-> checkins_since(ck, s.student_id, build_start)] : s \in st}

\* DBase.get_checkin_counts: a dict with a key for every student_id that
\* has a check-in at or after the date
get_checkin_counts(ck, since) ==
    [sid \in {r.student_id : r \in {x \in DOMAIN ck :
                                       x.timestamp >= adapt_date_iso(since)}} |->
        checkins_since(ck, sid, since)]

Do_get_student_attendance_data(year_start, build_start) ==
    /\ ret' = Returned("Cursor",
                  Cardinality(get_student_attendance_data(
                                  students, checkins, year_start, build_start)))
    /\ call' = "DBase.get_student_attendance_data"
    /\ UNCHANGED <<storeVars, now, genVars, db_file, screenVars>>

Do_get_checkin_counts(since) ==
    /\ ret' = Returned("dict", Cardinality(DOMAIN get_checkin_counts(checkins, since)))
    /\ call' = "DBase.get_checkin_counts"
    /\ UNCHANGED <<storeVars, now, genVars, db_file, screenVars>>

\* CheckinEvent.get_checkin_events: event_attendance LEFT JOIN events
get_checkin_events(ev, ck) ==
    {[event_date |-> a.event_date,
      event_type |-> a.event_type,
      checkin_count |-> get_count(ck, a.event_date, a.event_type),
      description |->
          IF exists(ev, a)
          THEN (CHOOSE e \in ev : e.event_date = a.event_date
                                  /\ e.event_type = a.event_type).description
          ELSE "NULL"] : a \in CheckinEvents(ck)}

Do_get_checkin_events ==
    /\ ret' = Returned("list", Cardinality(get_checkin_events(events, checkins)))
    /\ call' = "CheckinEvent.get_checkin_events"
    /\ UNCHANGED <<storeVars, now, genVars, db_file, screenVars>>

NextReport ==
    \/ \E s \in Roster : add_student(s.student_id, s.email)
    \/ \E e \in EventRows : Event_add(e)
    \/ \E c \in CheckinRows : Do_add_checkin_record(c.student_id, c.timestamp, c.event_type)
    \/ \E year_start \in Dates, build_start \in Dates :
           Do_get_student_attendance_data(year_start, build_start)
    \/ \E since \in Dates : Do_get_checkin_counts(since)
    \/ Do_get_checkin_events

SpecReport == Init /\ [][NextReport]_vars

----------------------------------------------------------------------------
(* Import of a JSON file: load_from_dict takes whatever the file holds *)

\* a text that is no EventType value
Party == "party"

\* db_data_dict as json.load returns it: rows of the right shape, nothing
\* else checked
JsonFiles ==
    [students : AtMostOne(Roster),
     events : AtMostOne(NullEvents \cup
                  {[event_date |-> 0, event_type |-> Party, description |-> "NULL"]}),
     checkins : AtMostOne(DailyCheckins \cup
                  {[student_id |-> "s1", event_type |-> Party, timestamp |-> 0]})]

NextImport ==
    \/ \E s \in Roster : add_student(s.student_id, s.email)
    \/ \E t \in UsedTypes : Do_add_event(t, 0, "NULL")
    \/ \E c \in DailyCheckins : Do_add_checkin_record(c.student_id, c.timestamp, c.event_type)
    \/ \E db \in JsonFiles : load_from_dict(db)
    \/ \E db \in IncomingStores : merge_database(db)

SpecImport == Init /\ [][NextImport]_vars

----------------------------------------------------------------------------
(* Claims about the store, checked under Spec *)

SameEvent(r, q) ==
    /\ r.student_id = q.student_id
    /\ event_date(r) = event_date(q)
    /\ r.event_type = q.event_type

\* C1: in every reachable state of the store the checkins table holds at most
\* one row per (student_id, event_date, event_type): no row is stored twice
\* and no two rows agree on the triple.
C1_OneCheckinPerStudentEvent ==
    \A r \in DOMAIN checkins :
        /\ checkins[r] = 1
        /\ \A q \in DOMAIN checkins : SameEvent(r, q) => q = r

\* C1 witness: a second insert for a stored triple has just been refused and
\* the table still holds that student's row for the day.
C1_Witness ==
    /\ call = "DBase.add_checkin_record"
    /\ ret = Raised(UniqueCheckins)
    /\ \E r \in Rows(checkins) : r.student_id = "s1" /\ event_date(r) = 0

\* C3: add_checkin_record for a (student_id, event_date, event_type) that is
\* already stored returns normally (the duplicate is reported, no sqlite3
\* exception is raised) and leaves the checkins table unchanged.
C3_DuplicateIsReportedNotRaised ==
    [][\A c \in CheckinRows :
         (/\ \E r \in Rows(checkins) : SameEvent(r, c)
          /\ Do_add_checkin_record(c.student_id, c.timestamp, c.event_type))
         => (ret'.raised = "none" /\ checkins' = checkins)]_vars

----------------------------------------------------------------------------
(* Claims about the scan screens, checked under SpecScan *)

\* check-ins stored for a student for the current date and the selected type
StoredFor(sid) ==
    {r \in DOMAIN checkins :
        /\ r.student_id = sid
        /\ event_date(r) = DateOf(now)
        /\ r.event_type = event_type}

CountFor(sid) == BagCardinality([r \in StoredFor(sid) |-> checkins[r]])

\* the QrCodeFound handler of the mounted screen runs
Handled == scan_screen_on_qr_code_found \/ take_attendance_on_qr_code_found

\* C2: while a scan screen is open, however the scan loop, the QrCodeFound
\* handler, the debounce expiry and the clock interleave, at most one check-in
\* is stored per student for the current date and the selected event type.
C2_OneCheckinPerScannedStudent ==
    screen # "closed" => \A sid \in StudentIds : CountFor(sid) <= 1

\* C2 witness: the code of s1 was queued a second time and its handler has
\* just answered "Already attended" while one check-in of s1 is stored and
\* the debounce timer of the earlier scan is still pending.
C2_Witness ==
    /\ screen # "closed"
    /\ call = "ScanScreen.on_scan_screen_qr_code_found"
    /\ ret = Logged("Already attended")
    /\ CountFor("s1") = 1
    /\ "s1" \in scanned
    /\ BagCardinality(timers) = 2

\* C4: when the handler takes a code that matches no student, or the code of
\* a student who already has a check-in for the current date and the selected
\* type, it stores nothing, raises no exception and leaves the screen open.
C4_NotFoundAndAlreadyAreNonFatal ==
    [][(/\ Handled
        /\ \/ ~StudentKeyExists(students, Head(msgq))
           \/ CountFor(Head(msgq)) > 0)
       => (/\ checkins' = checkins
           /\ ret'.raised = "none"
           /\ screen' = screen)]_vars

\* C5: when the handler takes the code of a known student who has no check-in
\* for the current date and the selected type, it stores exactly one check-in
\* (student, selected type, now) and reports success.
C5_KnownStudentIsCheckedIn ==
    [][(/\ Handled
        /\ StudentKeyExists(students, Head(msgq))
        /\ CountFor(Head(msgq)) = 0)
       => (/\ checkins' = checkins (+) SetToBag({[student_id |-> Head(msgq),
                                                  event_type |-> event_type,
                                                  timestamp |-> now]})
           /\ ret' = Logged("Success"))]_vars

----------------------------------------------------------------------------
(* Claims about the events table, checked under SpecEvents *)

\* C6: adding an event whose (event_date, event_type) is stored changes
\* nothing, not even the stored description, and Event.add returns False;
\* adding a pair that is not stored inserts exactly that one row and
\* Event.add returns True.
C6_AddEventIsInsertOrIgnore ==
    [][\A e \in EventRows :
         LET stored == EventKeyExists(events, e.event_date, e.event_type)
             added == /\ events' = events \cup {e}
                      /\ Cardinality(events') = Cardinality(events) + 1
         IN /\ Event_add(e) =>
                 IF stored
                 THEN events' = events /\ ret' = ReturnedBool(FALSE)
                 ELSE added /\ ret' = ReturnedBool(TRUE)
            /\ Do_add_event(e.event_type, e.event_date, e.description) =>
                 IF stored THEN events' = events ELSE added]_vars

\* C6 witness: Event.add has just returned False while the stored row of
\* that date and type keeps its own description next to a second event.
C6_Witness ==
    /\ call = "Event.add"
    /\ ret = ReturnedBool(FALSE)
    /\ [event_date |-> 0, event_type |-> MEETING, description |-> "Kickoff"] \in events
    /\ Cardinality(events) = 2

Retagged(d, t, new_type) ==
    /\ Tagged(checkins', d, t) = {}
    /\ \A r \in Tagged(checkins, d, t) :
          [r EXCEPT !.event_type = new_type] \in DOMAIN checkins'

\* either revision of Event.update_event_type
Update_event_type(e, new_type) ==
    Event_update_event_type(e, new_type) \/ Schema_update_event_type(e, new_type)

\* either revision of Event.update_event_date
Update_event_date(e, new_date) ==
    Event_update_event_date(e, new_date) \/ Schema_update_event_date(e, new_date)

\* C8: when update_event_type(e, new_type) returns normally and new_type is
\* not e's type, the event (e.event_date, new_type) exists, the event
\* (e.event_date, old type) does not, every check-in of the old event is
\* tagged with the new type and the returned count is their number.
C8_TypeChangeMovesEventAndCheckins ==
    [][\A e \in EventRows, t \in UsedTypes :
         (/\ t # e.event_type
          /\ Update_event_type(e, t)
          /\ ret'.raised = "none")
         => (/\ EventKeyExists(events', e.event_date, t)
             /\ ~EventKeyExists(events', e.event_date, e.event_type)
             /\ Retagged(e.event_date, e.event_type, t)
             /\ ret' = Returned("int", get_count(checkins, e.event_date,
                                                 e.event_type)))]_vars

\* C9: update_event_type is all-or-nothing: no call leaves the check-ins of
\* the event retagged while the event row keeps the old type, nor the event
\* row changed while check-ins still carry the old type.
C9_TypeChangeIsAllOrNothing ==
    [][\A e \in EventRows, t \in UsedTypes :
         (/\ t # e.event_type
          /\ EventKeyExists(events, e.event_date, e.event_type)
          /\ Update_event_type(e, t))
         => LET d == e.event_date
                checkins_moved == /\ Tagged(checkins, d, e.event_type) # {}
                                  /\ Retagged(d, e.event_type, t)
                row_updated == /\ ~EventKeyExists(events', d, e.event_type)
                               /\ EventKeyExists(events', d, t)
            IN /\ ~(checkins_moved /\ ~row_updated)
               /\ ~(row_updated /\ Tagged(checkins', d, e.event_type) # {})]_vars

\* C10 as stated: update_event_type and update_event_date on an Event whose
\* (event_date, event_type) is not in the events table raise EventUpateError
\* for every requested type or date.
C10_MissingEventAlwaysRaises ==
    [][\A e \in EventRows :
         ~EventKeyExists(events, e.event_date, e.event_type) =>
            /\ \A t \in UsedTypes :
                  Event_update_event_type(e, t) => ret'.raised \in EventUpateError
            /\ \A d \in Dates :
                  Event_update_event_date(e, d) => ret'.raised \in EventUpateError]_vars

\* C10 amended: on an Event that is not in the events table,
\* update_event_type asked for a type other than the Event's own and
\* update_event_date asked for a date other than the Event's own raise
\* EventUpateError ("Original event does not exist") and change nothing.
C10_MissingEventRaisesOnChange ==
    [][\A e \in EventRows :
         ~EventKeyExists(events, e.event_date, e.event_type) =>
            /\ \A t \in UsedTypes \ {e.event_type} :
                  Update_event_type(e, t) =>
                     /\ ret' = Raised(NoOriginalEvent)
                     /\ UNCHANGED storeVars
            /\ \A d \in Dates \ {e.event_date} :
                  Update_event_date(e, d) =>
                     /\ ret' = Raised(NoOriginalEvent)
                     /\ UNCHANGED storeVars]_vars

\* C10 witness: a type change of an event that is not stored was just
\* refused while another event is stored.
C10_Witness ==
    /\ call = "events_mod.Event.update_event_type"
    /\ ret = Raised(NoOriginalEvent)
    /\ events # {}

\* C11: when update_event_date(e, new_date) returns normally for a stored
\* event e without check-ins and new_date is not e's date, the event
\* (new_date, e.event_type) exists with e's description, no event
\* (old date, e.event_type) exists and the number of events is unchanged.
C11_DateChangeMovesEvent ==
    [][\A e \in EventRows, d \in Dates :
         (/\ e \in events
          /\ get_count(checkins, e.event_date, e.event_type) = 0
          /\ d # e.event_date
          /\ Update_event_date(e, d)
          /\ ret'.raised = "none")
         => (/\ [e EXCEPT !.event_date = d] \in events'
             /\ ~EventKeyExists(events', e.event_date, e.event_type)
             /\ Cardinality(events') = Cardinality(events))]_vars

----------------------------------------------------------------------------
(* Claims about event discovery, checked under SpecDiscover *)

\* C12: after scan_for_new_events every (event_date, event_type) of the
\* check-ins has exactly one row in the events table, the events stored
\* before are all still there unchanged and the returned count is the number
\* of rows inserted; run again right after, it inserts nothing and returns 0.
C12_ScanCompletesEventsOnce ==
    [][scan_for_new_events =>
         /\ \A r \in Rows(checkins') :
               Cardinality({e \in events' : /\ e.event_date = event_date(r)
                                            /\ e.event_type = r.event_type}) = 1
         /\ events \subseteq events'
         /\ ret' = Returned("int", Cardinality(events' \ events))
         /\ call = "DBase.scan_for_new_events" =>
               (events' = events /\ ret' = Returned("int", 0))]_vars

\* C12 witness: the scan has just inserted an event for a check-in that had
\* none, next to an event that was stored before with its own description.
C12_Witness ==
    /\ call = "DBase.scan_for_new_events"
    /\ ret = Returned("int", 1)
    /\ Cardinality(events) = 2
    /\ \E e \in events : e.description = "Kickoff"
    /\ \A r \in Rows(checkins) : EventKeyExists(events, event_date(r), r.event_type)
    /\ checkins # EmptyBag

----------------------------------------------------------------------------
(* Claims about export, import and merge, checked under SpecTransfer *)

\* C13: for every store S, load_from_dict(to_dict(S)) into an empty store
\* returns normally and leaves a store with exactly S's students, events
\* and check-ins, field by field (the check-in id and the derived columns
\* are not part of a row here).
C13_ExportImportRoundTrip ==
    [][(students = {} /\ events = {} /\ checkins = EmptyBag) =>
       \A S \in ValidStores :
         load_from_dict(to_dict(S.students, S.events, SetToBag(S.checkins)))
         => (/\ ret' = ReturnedNone
             /\ students' = S.students
             /\ events' = S.events
             /\ checkins' = SetToBag(S.checkins)
             /\ Cardinality(students') = Cardinality(S.students)
             /\ Cardinality(events') = Cardinality(S.events)
             /\ BagCardinality(checkins') = Cardinality(S.checkins))]_vars

\* C13 witness: an export holding two students, two events (one with a
\* description) and two check-ins has just been imported.
C13_Witness ==
    /\ call = "DBase.load_from_dict"
    /\ ret = ReturnedNone
    /\ Cardinality(students) = 2
    /\ Cardinality(events) = 2
    /\ \E e \in events : e.description = "Kickoff"
    /\ BagCardinality(checkins) = 2

\* the students of a database file
ValidStudents == {db.students : db \in ValidStores}

StudentsOnly(st) == [students |-> st, events |-> {}, checkins |-> {}]

\* C14: merging the same database a second time changes nothing: a merge
\* leaves a store on which the same merge inserts no student and no
\* check-in, and in which no student_id and no (student_id, event_date,
\* event_type) occurs twice.
C14_MergeTwiceIsMergeOnce ==
    [][\A B \in ValidStudents :
         merge_database(StudentsOnly(B)) =>
            /\ MergeStudents(students', B, {s.student_id : s \in students'}) = students'
            /\ checkins' = checkins
            /\ \A x \in students', y \in students' :
                  x.student_id = y.student_id => x = y
            /\ \A r \in DOMAIN checkins' :
                  /\ checkins'[r] = 1
                  /\ \A q \in DOMAIN checkins' : SameEvent(r, q) => q = r]_vars

\* C14 witness: a merge has just run on a store that holds both students of
\* the roster and a check-in.
C14_Witness ==
    /\ call = "DBase.merge_database"
    /\ Cardinality(students) = 2
    /\ checkins # EmptyBag

\* C15: after A.merge_database(B) every student of B whose student_id was
\* not in A is in A, every check-in of B is in A unless A already held a
\* check-in for its (student_id, event_date, event_type), and the merge
\* completes without raising.
C15_MergeBringsStudentsAndCheckins ==
    [][\A db \in ValidStores :
         merge_database(db) =>
            /\ \A s \in db.students :
                  ~StudentKeyExists(students, s.student_id) => s \in students'
            /\ \A c \in db.checkins :
                  \/ c \in DOMAIN checkins'
                  \/ \E r \in DOMAIN checkins : SameEvent(r, c)
            /\ ret'.raised = "none"]_vars

----------------------------------------------------------------------------
(* Further claims about the store, checked under Spec *)

\* C16: remove_last_checkin_record(student_id) deletes exactly one
\* check-in, one of that student with the greatest timestamp, returns that
\* timestamp and leaves every other check-in in place; for a student
\* without check-ins it returns None and changes nothing.
C16_RemoveLastRemovesOne ==
    [][\A sid \in StudentIds :
         remove_last_checkin_record(sid) =>
            LET mine == CheckinsOf(checkins, sid)
                last == Max({r.timestamp : r \in mine})
            IN IF mine = {}
               THEN ret' = ReturnedNone /\ checkins' = checkins
               ELSE /\ ret' = Returned("datetime", last)
                    /\ \E r \in mine :
                          /\ r.timestamp = last
                          /\ checkins' = checkins (-) SetToBag({r})]_vars

----------------------------------------------------------------------------
(* Claims about students_mod.Student, checked under SpecStudents *)

Active(st) == {s \in st : s.deactivated_on = "NULL"}

\* C17: Student.get_all returns exactly the students whose deactivated_on
\* is null by default and every student with include_inactive=True, and
\* Student.update, whatever deactivated_on it sets, leaves the check-ins
\* table as it was.
C17_GetAllHidesDeactivated ==
    [][/\ \A b \in BOOLEAN :
             Student_get_all(b) =>
                LET expected == IF b THEN students ELSE Active(students)
                IN /\ get_all(students, b) = expected
                   /\ ret' = Returned("list", Cardinality(expected))
       /\ \A row \in ModStudentRows :
             Student_update(row) => checkins' = checkins]_vars

\* C17 witness: the default listing has just returned one of two students
\* while the other, deactivated, still has a check-in stored.
C17_Witness ==
    /\ call = "Student.get_all"
    /\ ret = Returned("list", 1)
    /\ Cardinality(students) = 2
    /\ \E s \in students :
          /\ s.deactivated_on # "NULL"
          /\ CheckinsOf(checkins, s.student_id) # {}

\* C18: Student.get_all_ids returns only the IDs of students whose
\* deactivated_on is null by default, and every ID with
\* include_inactive=True.
C18_GetAllIdsHidesDeactivated ==
    [][\A b \in BOOLEAN :
         Student_get_all_ids(b) =>
            LET expected == IF b THEN students ELSE Active(students)
            IN /\ get_all_ids(students, b) = {s.student_id : s \in expected}
               /\ ret' = Returned("list", Cardinality(expected))]_vars

\* C19: adding a student whose generated student_id is taken, while the
\* email is new and another ID is free, succeeds under a fresh ID: the
\* student is stored once and every stored row stays as it was.
C19_AddRetriesOnIdCollision ==
    [][\A row \in ModStudentRows :
         (/\ StudentKeyExists(students, row.student_id)
          /\ ~\E s \in students : s.email = row.email
          /\ \E sid \in StudentIds : ~StudentKeyExists(students, sid)
          /\ Student_add(row))
         => (/\ ret'.raised = "none"
             /\ \E sid \in StudentIds :
                   /\ ~StudentKeyExists(students, sid)
                   /\ students' = students \cup {[row EXCEPT !.student_id = sid]})]_vars

----------------------------------------------------------------------------
(* Claims about the random ID generator, checked under SpecGenerate *)

----------------------------------------------------------------------------
(* Claims about the roster editor, checked under SpecManage *)

RECURSIVE InsertedSkipping(_, _)
\* the students table after every row of the batch that violates no
\* constraint has been inserted, in the order of the file
InsertedSkipping(st, rows) ==
    IF rows = <<>>
    THEN st
    ELSE InsertedSkipping(IF StudentConflict(st, Head(rows))
                          THEN st ELSE st \cup {Head(rows)},
                          Tail(rows))

\* C21: a CSV import never fails as a whole: rows that violate a constraint
\* are skipped and counted as failures, every other row of the batch is
\* inserted, and the success and failure counts reported add up to the number
\* of rows.
C21_ImportSkipsBadRows ==
    [][\A rows \in CsvFiles :
          action_import_csv(rows) =>
              /\ ret'.raised = "none"
              /\ students' = InsertedSkipping(students, rows)
              /\ ret'.num = Cardinality(students') - Cardinality(students)
              /\ ret'.num + ret'.failed = Len(rows)]_vars

----------------------------------------------------------------------------
(* Claims about opening a database file, checked under SpecOpen *)

Constructed(create_new) == DBase_init(create_new) \/ db_DBase_init(create_new)
OpenErrors == {FileExists, FileMissing, PathDoesNotExist}

\* C22: DBase(path, create_new=False) raises when the file is missing and
\* otherwise opens the existing file without changing its contents;
\* DBase(path, create_new=True) raises when the file already exists, leaving it
\* unchanged, and otherwise creates the tables.
C22_OpenOrCreate ==
    [][\A create_new \in BOOLEAN :
          Constructed(create_new) =>
              /\ (~create_new /\ db_file = "missing") =>
                     ret'.raised \in OpenErrors /\ db_file' = "missing"
              /\ (~create_new /\ db_file = "exists") =>
                     ret' = ReturnedNone /\ UNCHANGED <<db_file, storeVars>>
              /\ (create_new /\ db_file = "exists") =>
                     ret'.raised \in OpenErrors /\ UNCHANGED <<db_file, storeVars>>
              /\ (create_new /\ db_file = "missing") =>
                     /\ ret' = ReturnedNone
                     /\ db_file' = "exists"
                     /\ students' = {} /\ events' = {} /\ checkins' = EmptyBag]_vars

----------------------------------------------------------------------------
(* Claims about the attendance reports, checked under SpecReport *)

\* the number of check-ins of a student at or after the first tick of a day
Since(sid, d) ==
    BagCardinality([r \in {x \in DOMAIN checkins :
                              x.student_id = sid /\ DateOf(x.timestamp) >= d} |->
                       checkins[r]])

C24_EveryEventInSummary ==
    [][Do_get_checkin_events =>
          \A e \in events :
             \E row \in get_checkin_events(events, checkins) :
                /\ row.event_date = e.event_date
                /\ row.event_type = e.event_type
                /\ row.checkin_count = get_count(checkins, e.event_date, e.event_type)]_vars

----------------------------------------------------------------------------
(* Further claims about the roster editor, checked under SpecManage *)

\* C25: delete_student deletes the student and all of the student's
\* check-ins, however many there are, and leaves every other student and
\* every other student's check-ins as they were.
C25_DeleteStudentCascades ==
    [][\A sid \in StudentIds :
          delete_student(sid) =>
              /\ ret' = ReturnedNone
              /\ students' = {s \in students : s.student_id # sid}
              /\ checkins' = DeleteCheckinsOf(checkins, sid)]_vars

----------------------------------------------------------------------------
(* Claims about referential integrity, checked under SpecIntegrity *)

\* C26: in every committed state each check-in's student_id is the ID of an
\* existing student and its (event_date, event_type) is the key of an
\* existing event, whatever adds, deletes and updates of students, events and
\* check-ins came before.
C26_CheckinsReferToStudentAndEvent ==
    \A r \in DOMAIN checkins :
        /\ \E s \in students : s.student_id = r.student_id
        /\ \E e \in events :
              /\ e.event_date = DateOf(r.timestamp)
              /\ e.event_type = r.event_type

\* C26 witness: delete_student has just been refused for a student whose
\* check-in is stored.
C26_Witness ==
    /\ call = "DBase.delete_student"
    /\ ret = Raised(ForeignKeyFailed)
    /\ checkins # EmptyBag
    /\ \A r \in DOMAIN checkins : StudentKeyExists(students, r.student_id)

----------------------------------------------------------------------------
(* Claims about the import of a JSON file, checked under SpecImport *)

\* C27: every event_type stored in the events table and in the check-ins
\* table is one of the eight EventType values, whatever calls came before,
\* load_from_dict and merge_database included.
C27_StoredEventTypesAreEventTypes ==
    /\ \A e \in events : e.event_type \in EventType
    /\ \A r \in DOMAIN checkins : r.event_type \in EventType

\* C30: load_from_dict is all-or-nothing: when it raises, the students, events
\* and check-ins tables are as they were before the call.
C30_LoadIsAllOrNothing ==
    [][\A db \in JsonFiles :
          (load_from_dict(db) /\ ret'.raised # "none") =>
              /\ students' = students
              /\ events' = events
              /\ checkins' = checkins]_vars

----------------------------------------------------------------------------
(* Further claims about the scan screens, checked under SpecScanLive and    *)
(* SpecScan                                                                 *)

\* C28: every code the scan loop adds to the debounce set is removed from it
\* again after its scan has been handled, whether the scan was a success, an
\* "Already attended" or an unknown ID.
C28_DebounceEntryIsRemoved ==
    \A c \in Codes : (c \in scanned) ~> (c \notin scanned)

\* C29: in the attendance scan screen a student ID is in _checkedin_students
\* only if the store holds a check-in of that student for the current date
\* and the selected event type.
C29_CheckedInMeansStored ==
    screen = "take_attendance" =>
        \A sid \in checkedin :
            \E r \in DOMAIN checkins :
                /\ r.student_id = sid
                /\ DateOf(r.timestamp) = DateOf(now)
                /\ r.event_type = event_type

====
